---- MODULE Spec2Model ----
(***************************************************************************)
(* Model of src/ai_voice_server.py: the /stt and /chat handlers of a local *)
(* Flask server in front of a speech model (faster_whisper) and a chat     *)
(* model (ollama).                                                         *)
(*                                                                         *)
(* Text is a sequence of characters.  The alphabet is a set of lexemes:    *)
(* every lexeme stands for the substring it names and is treated by the    *)
(* string operations of the code (strip, find, rfind, startswith,          *)
(* endswith, slicing, json.loads) as that substring is:                    *)
(*   "sp" "nl"        a space, a newline (the whitespace of str.strip and  *)
(*                    of the JSON scanner)                                 *)
(*   "fence"          a run of three backticks                             *)
(*   "{" "}" "[" "]" "," ":"   the JSON punctuation                        *)
(*   "s_reply" ...    a JSON string literal (reply in double quotes)       *)
(*   "null" "true" "false" "0"  the JSON literals and a number             *)
(*   "w"              a word of prose                                      *)
(* Positions are 1-based; 0 is Python's -1 ("not found").                  *)
(***************************************************************************)
EXTENDS Integers, Sequences, FiniteSets, TLC

\* ------------------------------------------------------------------------
\* Bounds of the model
\* ------------------------------------------------------------------------
MaxPre == 2

MaxPost == 1

MaxMsgs == 4

MaxSegs == 2

\* ------------------------------------------------------------------------
\* Python values.  Every value is a record [t, v]: t is the Python type
\* and v a sequence (the characters of a str, the elements of a list, the
\* literal of a number or bool) or, for a dict, a function from its keys.
\* ------------------------------------------------------------------------
PyNone == [t |-> "NoneType", v |-> <<>>]

PyBool(b) == [t |-> "bool", v |-> <<b>>]

PyInt(n) == [t |-> "int", v |-> <<n>>]

PyStr(s) == [t |-> "str", v |-> s]

PyList(l) == [t |-> "list", v |-> l]

PyDict(d) == [t |-> "dict", v |-> d]

EmptyDict == [k \in {} |-> PyNone]

\* d[k] = val on a Python dict
DictSet(d, k, val) ==
    [x \in (DOMAIN d) \cup {k} |-> IF x = k THEN val ELSE d[x]]

\* ------------------------------------------------------------------------
\* str methods used by the code
\* ------------------------------------------------------------------------
IsSpace(c) == c \in {"sp", "nl"}

RECURSIVE LStrip(_)
LStrip(s) ==
    IF s # <<>> /\ IsSpace(Head(s)) THEN LStrip(Tail(s)) ELSE s

RECURSIVE RStrip(_)
RStrip(s) ==
    IF s # <<>> /\ IsSpace(s[Len(s)])
    THEN RStrip(SubSeq(s, 1, Len(s) - 1))
    ELSE s

\* str.strip()
Strip(s) == RStrip(LStrip(s))

\* str.find(c): the first position of c, 0 when there is none
Find(s, c) ==
    IF \E i \in 1..Len(s) : s[i] = c
    THEN CHOOSE i \in 1..Len(s) : s[i] = c /\ \A j \in 1..(i - 1) : s[j] # c
    ELSE 0

\* str.rfind(c): the last position of c, 0 when there is none
RFind(s, c) ==
    IF \E i \in 1..Len(s) : s[i] = c
    THEN CHOOSE i \in 1..Len(s) : s[i] = c /\ \A j \in (i + 1)..Len(s) : s[j] # c
    ELSE 0

StartsWithFence(s) == s # <<>> /\ s[1] = "fence"

EndsWithFence(s) == s # <<>> /\ s[Len(s)] = "fence"

\* ------------------------------------------------------------------------
\* extract_json_block (lines 26-55)
\* ------------------------------------------------------------------------
DropFirstLine(s) ==
    IF Find(s, "nl") # 0 THEN SubSeq(s, Find(s, "nl") + 1, Len(s)) ELSE s

DropTrailingFence(s) ==
    IF EndsWithFence(s) THEN SubSeq(s, 1, Len(s) - 1) ELSE s

StripFences(s) ==
    IF StartsWithFence(s)
    THEN Strip(DropTrailingFence(DropFirstLine(s)))
    ELSE s

KeepBraces(s) ==
    LET start == Find(s, "{")
        end == RFind(s, "}")
    IN  IF start # 0 /\ end # 0 /\ end > start
        THEN SubSeq(s, start, end)
        ELSE s

extract_json_block(raw) ==
    IF raw = <<>>
    THEN <<>>
    ELSE Strip(KeepBraces(StripFences(Strip(raw))))

\* ------------------------------------------------------------------------
\* json.loads: a JSON document is whitespace, one value, whitespace.
\* A parse result is [ok, val, next]: next is the position after the value.
\* ------------------------------------------------------------------------
StrLits == {"s_reply", "s_order", "s_check_sandwich", "s_x", "s_empty"}

\* the str a string literal denotes, as a dict key
StrKey(lit) ==
    CASE lit = "s_reply" -> "reply"
      [] lit = "s_order" -> "order"
      [] lit = "s_check_sandwich" -> "check_sandwich"
      [] lit = "s_x" -> "x"
      [] OTHER -> ""

\* the str a string literal denotes, as text
StrText(lit) == IF lit = "s_empty" THEN <<>> ELSE <<StrKey(lit)>>

ParseError == [ok |-> FALSE, val |-> PyNone, next |-> 0]

Parsed(val, next) == [ok |-> TRUE, val |-> val, next |-> next]

RECURSIVE SkipWs(_, _)
SkipWs(s, i) ==
    IF i <= Len(s) /\ IsSpace(s[i]) THEN SkipWs(s, i + 1) ELSE i

RECURSIVE ParseValue(_, _)
RECURSIVE ParseMembers(_, _, _)
RECURSIVE ParseElements(_, _, _)

\* the members of an object, from the key expected at position i
ParseMembers(s, i, acc) ==
    IF i > Len(s) \/ s[i] \notin StrLits
    THEN ParseError
    ELSE LET c == SkipWs(s, i + 1)
         IN  IF c > Len(s) \/ s[c] # ":"
             THEN ParseError
             ELSE LET r == ParseValue(s, SkipWs(s, c + 1))
                      e == SkipWs(s, r.next)
                      d == DictSet(acc, StrKey(s[i]), r.val)
                  IN  IF ~r.ok \/ e > Len(s)
                      THEN ParseError
                      ELSE IF s[e] = "}"
                      THEN Parsed(PyDict(d), e + 1)
                      ELSE IF s[e] = ","
                      THEN ParseMembers(s, SkipWs(s, e + 1), d)
                      ELSE ParseError

\* the elements of an array, from the value expected at position i
ParseElements(s, i, acc) ==
    LET r == ParseValue(s, i)
        e == SkipWs(s, r.next)
        l == Append(acc, r.val)
    IN  IF ~r.ok \/ e > Len(s)
        THEN ParseError
        ELSE IF s[e] = "]"
        THEN Parsed(PyList(l), e + 1)
        ELSE IF s[e] = ","
        THEN ParseElements(s, SkipWs(s, e + 1), l)
        ELSE ParseError

ParseValue(s, i) ==
    IF i > Len(s)
    THEN ParseError
    ELSE CASE s[i] \in StrLits -> Parsed(PyStr(StrText(s[i])), i + 1)
           [] s[i] = "null" -> Parsed(PyNone, i + 1)
           [] s[i] = "true" -> Parsed(PyBool(TRUE), i + 1)
           [] s[i] = "false" -> Parsed(PyBool(FALSE), i + 1)
           [] s[i] = "0" -> Parsed(PyInt(0), i + 1)
           [] s[i] = "{" ->
                LET n == SkipWs(s, i + 1)
                IN  IF n <= Len(s) /\ s[n] = "}"
                    THEN Parsed(PyDict(EmptyDict), n + 1)
                    ELSE ParseMembers(s, n, EmptyDict)
           [] s[i] = "[" ->
                LET n == SkipWs(s, i + 1)
                IN  IF n <= Len(s) /\ s[n] = "]"
                    THEN Parsed(PyList(<<>>), n + 1)
                    ELSE ParseElements(s, n, <<>>)
           [] OTHER -> ParseError

\* json.loads(s): [ok |-> FALSE] stands for the JSONDecodeError it raises
json_loads(s) ==
    LET r == ParseValue(s, SkipWs(s, 1))
    IN  IF r.ok /\ SkipWs(s, r.next) = Len(s) + 1
        THEN [ok |-> TRUE, val |-> r.val]
        ELSE [ok |-> FALSE, val |-> PyNone]

\* ------------------------------------------------------------------------
\* Python's "in", subscript and item assignment on a value of any type, as
\* lines 151-161 apply them to the result of json.loads.  A result is
\* [raised, val]: raised stands for the TypeError or KeyError of the
\* operation.
\* ------------------------------------------------------------------------
Raised == [raised |-> TRUE, val |-> PyNone]

Returns(val) == [raised |-> FALSE, val |-> val]

\* key in x
Contains(x, key) ==
    CASE x.t = "dict" -> Returns(PyBool(key \in DOMAIN x.v))
      [] x.t = "str" -> Returns(PyBool(\E i \in 1..Len(x.v) : x.v[i] = key))
      [] x.t = "list" ->
            Returns(PyBool(\E i \in 1..Len(x.v) : x.v[i] = PyStr(<<key>>)))
      [] OTHER -> Raised

\* x[key], key a str
GetItem(x, key) ==
    IF x.t = "dict" /\ key \in DOMAIN x.v THEN Returns(x.v[key]) ELSE Raised

\* x[key] = val, key a str
SetItem(x, key, val) ==
    IF x.t = "dict" THEN Returns(PyDict(DictSet(x.v, key, val))) ELSE Raised

\* lines 151-152 and 155-156: if key not in parsed: parsed[key] = default
EnsureKey(parsed, key, default) ==
    LET has == Contains(parsed, key)
    IN  IF has.raised
        THEN Raised
        ELSE IF has.val = PyBool(FALSE)
        THEN SetItem(parsed, key, default)
        ELSE Returns(parsed)

\* EnsureOrder without the "is None" test of line 153
EnsureOrderMissingOnly(parsed) ==
    LET has == Contains(parsed, "order")
    IN  IF has.raised
        THEN Raised
        ELSE IF has.val = PyBool(FALSE)
        THEN SetItem(parsed, "order", PyList(<<>>))
        ELSE Returns(parsed)

\* EnsureOrder with a truth test in place of the "is None" test of line 153
EnsureOrderFalsy(parsed) ==
    LET has == Contains(parsed, "order")
        cur == GetItem(parsed, "order")
    IN  IF has.raised
        THEN Raised
        ELSE IF has.val = PyBool(FALSE)
        THEN SetItem(parsed, "order", PyList(<<>>))
        ELSE IF cur.raised
        THEN Raised
        ELSE IF cur.val \in {PyNone, PyStr(<<>>), PyList(<<>>), PyInt(0),
                             PyBool(FALSE), PyDict(EmptyDict)}
        THEN SetItem(parsed, "order", PyList(<<>>))
        ELSE Returns(parsed)

\* lines 153-154: if "order" not in parsed or parsed["order"] is None
EnsureOrder(parsed) ==
    LET has == Contains(parsed, "order")
        cur == GetItem(parsed, "order")
    IN  IF has.raised
        THEN Raised
        ELSE IF has.val = PyBool(FALSE)
        THEN SetItem(parsed, "order", PyList(<<>>))
        ELSE IF cur.raised
        THEN Raised
        ELSE IF cur.val = PyNone
        THEN SetItem(parsed, "order", PyList(<<>>))
        ELSE Returns(parsed)

\* lines 150-161: the three defaults in order, then the three subscripts
\* of the prints
EnsureKeys(parsed) ==
    LET a == EnsureKey(parsed, "reply", PyStr(<<>>))
        b == EnsureOrder(a.val)
        c == EnsureKey(b.val, "check_sandwich", PyBool(FALSE))
    IN  IF a.raised \/ b.raised \/ c.raised
        THEN Raised
        ELSE IF GetItem(c.val, "reply").raised
                \/ GetItem(c.val, "order").raised
                \/ GetItem(c.val, "check_sandwich").raised
        THEN Raised
        ELSE c

\* lines 144-148
Fallback(raw) ==
    PyDict([k \in {"reply", "order", "check_sandwich"} |->
        CASE k = "reply" -> PyStr(raw)
          [] k = "order" -> PyList(<<>>)
          [] OTHER -> PyBool(FALSE)])

\* lines 168-172
ErrorPayload ==
    PyDict([k \in {"reply", "order", "check_sandwich"} |->
        CASE k = "reply" -> PyStr(<<"Something went wrong on the server.">>)
          [] k = "order" -> PyList(<<>>)
          [] OTHER -> PyBool(FALSE)])

\* lines 139-140: the body of the inner try
CleanAndLoad(raw) == json_loads(extract_json_block(raw))

\* ParseOrFallback with the cleaned text as the reply of the fallback
ParseOrFallbackCleaned(raw, loaded) ==
    IF loaded.ok THEN loaded.val ELSE Fallback(extract_json_block(raw))

\* lines 138-148: the inner try, loaded what its body gave
ParseOrFallback(raw, loaded) ==
    IF loaded.ok THEN loaded.val ELSE Fallback(raw)

\* lines 138-172: what chat returns, raw the trimmed content and loaded
\* what the body of the inner try gave
ReplyFrom(raw, loaded) ==
    LET ensured == EnsureKeys(ParseOrFallback(raw, loaded))
    IN  IF ensured.raised THEN ErrorPayload ELSE ensured.val

\* lines 133-172: what chat returns once ollama.chat has returned a message
\* whose content is the text content
ChatReply(content) == ReplyFrom(Strip(content), CleanAndLoad(Strip(content)))

\* ------------------------------------------------------------------------
\* /stt helpers (lines 102-103)
\* ------------------------------------------------------------------------
RECURSIVE Join(_, _)
\* sep.join(parts)
Join(sep, parts) ==
    IF parts = <<>>
    THEN <<>>
    ELSE IF Len(parts) = 1
    THEN parts[1]
    ELSE parts[1] \o sep \o Join(sep, Tail(parts))

\* line 103: " ".join([s.text.strip() for s in segments])
JoinSegments(segs) ==
    Join(<<"sp">>, [i \in 1..Len(segs) |-> Strip(segs[i])])

\* lines 94 and 110
EmptyText == PyDict([k \in {"text"} |-> PyStr(<<>>)])

\* line 106
TextResult(text) == PyDict([k \in {"text"} |-> PyStr(text)])

\* ------------------------------------------------------------------------
\* The inputs: request bodies and what the collaborators return
\* ------------------------------------------------------------------------
SeqsUpTo(S, n) == UNION {[1..k -> S] : k \in 0..n}

OLLAMA_MODEL == "phi4:latest"

\* line 124: the messages the request log prints, messages[-3:]
PrintTail == 3

UserMsg == [role |-> "user", content |-> <<"w">>]

AssistantMsg == [role |-> "assistant", content |-> <<"w">>]

NoRoleMsg == [content |-> <<"w">>]

NoContentMsg == [role |-> "user"]

\* a /chat or /stt request body: kind says what request.get_json makes of
\* it, messages is its "messages" field, data its raw bytes
Body(kind, messages, data) ==
    [kind |-> kind, messages |-> messages, data |-> data]

NoBody == Body("none", <<>>, <<>>)

\* /chat bodies that are a JSON object with a list of messages
Conversations(kinds, n) ==
    {Body("messages", m, <<"b">>) : m \in SeqsUpTo(kinds, n)}

\* /chat bodies that are no JSON, JSON but no object, an object without
\* "messages", an object whose "messages" is a non-empty str
OtherChatBodies ==
    {Body(k, <<>>, <<"b">>) : k \in {"badjson", "nondict", "nomessages", "strmessages"}}

SttBodies == {Body("audio", <<>>, <<>>), Body("audio", <<>>, <<"b">>)}

\* what ollama.chat does: raises, returns a response without
\* ["message"]["content"] (or with a content that is no str), or returns text
ChatResponse(kind, text) == [kind |-> kind, text |-> text]

NoResponse == ChatResponse("none", <<>>)

ChatFailures == {ChatResponse("raise", <<>>), ChatResponse("nocontent", <<>>)}

\* the JSON text of one member, <<>> when the value is absent
Member(key, value) == IF value = <<>> THEN <<>> ELSE <<key, ":">> \o value

ReplyValues == {<<>>, <<"s_x">>, <<"0">>}

OrderValues == {<<>>, <<"null">>, <<"[", "]">>, <<"s_empty">>}

CheckValues == {<<>>, <<"true">>}

ExtraValues == {<<>>, <<"s_x">>}

\* the members present, in the order reply, order, check_sandwich, x
Members(r, o, c, x) ==
    SelectSeq(<<Member("s_reply", r), Member("s_order", o),
                Member("s_check_sandwich", c), Member("s_x", x)>>,
              LAMBDA m : m # <<>>)

\* JSON object texts on one line
OneLineTexts ==
    {<<"{">> \o Join(<<",">>, Members(r, o, c, x)) \o <<"}">> :
        r \in ReplyValues, o \in OrderValues, c \in CheckValues,
        x \in ExtraValues}

\* JSON object texts with a newline after the opening brace
TwoLineTexts ==
    {<<"{", "nl">> \o Join(<<",">>, Members(r, o, <<>>, <<>>)) \o <<"}">> :
        r \in ReplyValues, o \in OrderValues}

ObjectTexts == OneLineTexts \cup TwoLineTexts

\* JSON texts that are no object
NonObjectTexts ==
    {<<"0">>, <<"null">>, <<"true">>, <<"s_x">>, <<"s_reply">>,
     <<"[", "]">>, <<"[", "s_reply", "]">>, <<"[", "{", "}", "]">>}

\* texts that are no JSON
MalformedTexts ==
    {<<>>, <<"w">>, <<"w", "sp", "w">>, <<"{", "s_reply", ":", "s_x">>,
     <<"{", "s_reply", "}">>, <<"{", "s_reply", ":", "s_x", ",", "}">>,
     <<"[", "0">>, <<"}", "{">>, <<"}", "w", "{", "}">>, <<"{", "}", "{">>}

PlainTexts == ObjectTexts \cup NonObjectTexts \cup MalformedTexts

PrefixChars == {"nl", "fence", "w", "{"}

SuffixChars == {"nl", "fence", "w", "}"}

\* what precedes and what follows a plain text: prose, fences, braces and
\* newlines
Prefixes == SeqsUpTo(PrefixChars, MaxPre) \cup {<<"fence", "w", "nl">>}

Suffixes == SeqsUpTo(SuffixChars, MaxPost) \cup {<<"nl", "fence">>}

\* what sf.read and the mono reduction do: kind "raise" is sf.read raising,
\* channels the shape of the decoded array, mean_raises audio.mean raising
Decoded(kind, channels, mean_raises) ==
    [kind |-> kind, channels |-> channels, mean_raises |-> mean_raises]

NotDecoded == Decoded("none", 0, FALSE)

SfReadOutcomes ==
    {Decoded("raise", 0, FALSE), Decoded("ok", 1, FALSE),
     Decoded("ok", 2, FALSE), Decoded("ok", 2, TRUE)}

SegmentTexts == SeqsUpTo({"sp", "w"}, 2)

\* what whisper_model.transcribe does: raises, or returns a generator that
\* yields segs and then ends or (raises) raises
Transcription(kind, segs, raises) ==
    [kind |-> kind, segs |-> segs, raises |-> raises]

NoTranscription == Transcription("none", <<>>, FALSE)

TranscribeOutcomes ==
    {Transcription("raise", <<>>, FALSE)}
    \cup {Transcription("segments", segs, r) :
            segs \in SeqsUpTo(SegmentTexts, MaxSegs), r \in BOOLEAN}

\* ------------------------------------------------------------------------
\* State
\* ------------------------------------------------------------------------
VARIABLES
    pc,            \* where the handler of the current request is
    request,       \* the body of the current request
    ollama_call,   \* the arguments of the ollama.chat call of this request
    ollama_calls,  \* how many times this request called ollama.chat
    response,      \* what ollama.chat returned or did
    raw,           \* the local raw of chat: the content, trimmed
    loaded,        \* what the inner try of chat gave: json.loads or its error
    sf_calls,      \* how many times this request called sf.read
    decoded,       \* what sf.read and the mono reduction returned or did
    whisper_calls, \* how many times this request called transcribe
    transcription, \* what transcribe returned or did
    returned       \* what the handler returned

vars ==
    <<pc, request, ollama_call, ollama_calls, response, raw, loaded, sf_calls,
      decoded, whisper_calls, transcription, returned>>

\* json.loads has not run
NotLoaded == [ok |-> FALSE, val |-> PyNone]

OllamaCall(model, messages, stream) ==
    [model |-> model, messages |-> messages, stream |-> stream]

NoCall == OllamaCall("", <<>>, TRUE)

Init ==
    /\ pc = "idle"
    /\ request = NoBody
    /\ ollama_call = NoCall
    /\ ollama_calls = 0
    /\ response = NoResponse
    /\ raw = <<>>
    /\ loaded = NotLoaded
    /\ sf_calls = 0
    /\ decoded = NotDecoded
    /\ whisper_calls = 0
    /\ transcription = NoTranscription
    /\ returned = PyNone

\* ------------------------------------------------------------------------
\* /chat (lines 117-172)
\* ------------------------------------------------------------------------
\* lines 122-125: the request log subscripts m['role'] and m['content'] of
\* the last three messages
LogRaises(messages) ==
    \E i \in 1..Len(messages) :
        /\ i > Len(messages) - PrintTail
        /\ ~({"role", "content"} \subseteq DOMAIN messages[i])

\* lines 119-125 raise before ollama.chat is called
RequestRaises(body) ==
    \/ body.kind \in {"badjson", "nondict", "strmessages"}
    \/ body.kind = "messages" /\ LogRaises(body.messages)

\* ChatRequest forwarding messages[-3:], the messages its log prints
ChatRequestTail(body) ==
    /\ pc = "idle"
    /\ request' = body
    /\ IF RequestRaises(body)
       THEN /\ returned' = ErrorPayload
            /\ pc' = "chat_done"
            /\ UNCHANGED <<ollama_call, ollama_calls>>
       ELSE /\ ollama_call' =
                 OllamaCall(OLLAMA_MODEL,
                            SubSeq(body.messages,
                                   IF Len(body.messages) > PrintTail
                                   THEN Len(body.messages) - PrintTail + 1
                                   ELSE 1,
                                   Len(body.messages)),
                            FALSE)
            /\ ollama_calls' = ollama_calls + 1
            /\ pc' = "chat_call"
            /\ UNCHANGED returned
    /\ UNCHANGED <<response, raw, loaded, sf_calls, decoded, whisper_calls,
                   transcription>>

\* lines 119-131: the request is read and, unless that raises, ollama.chat
\* is called
ChatRequest(body) ==
    /\ pc = "idle"
    /\ request' = body
    /\ IF RequestRaises(body)
       THEN /\ returned' = ErrorPayload
            /\ pc' = "chat_done"
            /\ UNCHANGED <<ollama_call, ollama_calls>>
       ELSE /\ ollama_call' = OllamaCall(OLLAMA_MODEL, body.messages, FALSE)
            /\ ollama_calls' = ollama_calls + 1
            /\ pc' = "chat_call"
            /\ UNCHANGED returned
    /\ UNCHANGED <<response, raw, loaded, sf_calls, decoded, whisper_calls,
                   transcription>>

\* OllamaReturn reading a missing message content as the empty text
OllamaReturnLenient(r) ==
    /\ pc = "chat_call"
    /\ response' = r
    /\ IF r.kind \in {"text", "nocontent"}
       THEN LET stripped == Strip(r.text)
                tried == CleanAndLoad(stripped)
            IN  /\ raw' = stripped
                /\ loaded' = tried
                /\ returned' = ReplyFrom(stripped, tried)
       ELSE /\ returned' = ErrorPayload
            /\ UNCHANGED <<raw, loaded>>
    /\ pc' = "chat_done"
    /\ UNCHANGED <<request, ollama_call, ollama_calls, sf_calls, decoded,
                   whisper_calls, transcription>>

\* lines 127-172: ollama.chat returns or raises, and the handler returns
OllamaReturn(r) ==
    /\ pc = "chat_call"
    /\ response' = r
    /\ IF r.kind = "text"
       THEN LET stripped == Strip(r.text)
                tried == CleanAndLoad(stripped)
            IN  /\ raw' = stripped
                /\ loaded' = tried
                /\ returned' = ReplyFrom(stripped, tried)
       ELSE /\ returned' = ErrorPayload
            /\ UNCHANGED <<raw, loaded>>
    /\ pc' = "chat_done"
    /\ UNCHANGED <<request, ollama_call, ollama_calls, sf_calls, decoded,
                   whisper_calls, transcription>>

\* ------------------------------------------------------------------------
\* /stt (lines 89-110)
\* ------------------------------------------------------------------------
\* SttRequest without the empty-body return of lines 92-94
SttRequestNoEmptyCheck(body) ==
    /\ pc = "idle"
    /\ request' = body
    /\ sf_calls' = sf_calls + 1
    /\ pc' = "stt_read"
    /\ UNCHANGED <<ollama_call, ollama_calls, response, raw, loaded, decoded,
                   whisper_calls, transcription, returned>>

\* lines 91-96
SttRequest(body) ==
    /\ pc = "idle"
    /\ request' = body
    /\ IF body.data = <<>>
       THEN /\ returned' = EmptyText
            /\ pc' = "stt_done"
            /\ UNCHANGED sf_calls
       ELSE /\ sf_calls' = sf_calls + 1
            /\ pc' = "stt_read"
            /\ UNCHANGED returned
    /\ UNCHANGED <<ollama_call, ollama_calls, response, raw, loaded, decoded,
                   whisper_calls, transcription>>

\* lines 96-102 and 108-110
SfReadReturn(d) ==
    /\ pc = "stt_read"
    /\ decoded' = d
    /\ IF d.kind = "raise" \/ (d.channels > 1 /\ d.mean_raises)
       THEN /\ returned' = EmptyText
            /\ pc' = "stt_done"
            /\ UNCHANGED whisper_calls
       ELSE /\ whisper_calls' = whisper_calls + 1
            /\ pc' = "stt_transcribe"
            /\ UNCHANGED returned
    /\ UNCHANGED <<request, ollama_call, ollama_calls, response, raw, loaded,
                   sf_calls, transcription>>

\* TranscribeReturn returning the segments read before the generator raised
TranscribeReturnPartial(t) ==
    /\ pc = "stt_transcribe"
    /\ transcription' = t
    /\ returned' = IF t.kind = "raise"
                   THEN EmptyText
                   ELSE TextResult(JoinSegments(t.segs))
    /\ pc' = "stt_done"
    /\ UNCHANGED <<request, ollama_call, ollama_calls, response, raw, loaded,
                   sf_calls, decoded, whisper_calls>>

\* lines 102-110
TranscribeReturn(t) ==
    /\ pc = "stt_transcribe"
    /\ transcription' = t
    /\ returned' = IF t.kind = "raise" \/ t.raises
                   THEN EmptyText
                   ELSE TextResult(JoinSegments(t.segs))
    /\ pc' = "stt_done"
    /\ UNCHANGED <<request, ollama_call, ollama_calls, response, raw, loaded,
                   sf_calls, decoded, whisper_calls>>

\* the response is sent; the next request starts from scratch
Respond ==
    /\ pc \in {"chat_done", "stt_done"}
    /\ pc' = "idle"
    /\ request' = NoBody
    /\ ollama_call' = NoCall
    /\ ollama_calls' = 0
    /\ response' = NoResponse
    /\ raw' = <<>>
    /\ loaded' = NotLoaded
    /\ sf_calls' = 0
    /\ decoded' = NotDecoded
    /\ whisper_calls' = 0
    /\ transcription' = NoTranscription
    /\ returned' = PyNone

\* ------------------------------------------------------------------------
\* Specifications
\* ------------------------------------------------------------------------
ChatBodies ==
    {Body(k, <<>>, <<"b">>) : k \in {"badjson", "nondict", "strmessages"}}
    \cup {Body("messages", <<m>>, <<"b">>) : m \in {UserMsg, NoRoleMsg}}

ConvBodies ==
    OtherChatBodies
    \cup Conversations({UserMsg, AssistantMsg, NoRoleMsg, NoContentMsg}, MaxMsgs)

\* every text the chat model can answer, one conversation
Next ==
    \/ pc = "idle" /\ \E body \in ChatBodies : ChatRequest(body)
    \/ pc = "chat_call" /\ \E r \in ChatFailures : OllamaReturn(r)
    \/ pc = "chat_call"
       /\ \E pre \in Prefixes, t \in PlainTexts, post \in Suffixes :
            OllamaReturn(ChatResponse("text", pre \o t \o post))
    \/ pc = "idle" /\ \E body \in SttBodies : SttRequest(body)
    \/ pc = "stt_read" /\ \E d \in SfReadOutcomes : SfReadReturn(d)
    \/ pc = "stt_transcribe" /\ \E t \in TranscribeOutcomes : TranscribeReturn(t)
    \/ Respond

Spec == Init /\ [][Next]_vars

\* every conversation, the undecorated texts
NextConv ==
    \/ pc = "idle" /\ \E body \in ConvBodies : ChatRequest(body)
    \/ pc = "chat_call" /\ \E r \in ChatFailures : OllamaReturn(r)
    \/ pc = "chat_call"
       /\ \E t \in PlainTexts : OllamaReturn(ChatResponse("text", t))
    \/ pc = "idle" /\ \E body \in SttBodies : SttRequest(body)
    \/ pc = "stt_read" /\ \E d \in SfReadOutcomes : SfReadReturn(d)
    \/ pc = "stt_transcribe" /\ \E t \in TranscribeOutcomes : TranscribeReturn(t)
    \/ Respond

SpecConv == Init /\ [][NextConv]_vars
\* ------------------------------------------------------------------------
\* Properties
\* ------------------------------------------------------------------------
ReplyKeys == {"reply", "order", "check_sandwich"}

\* /chat has returned
ChatDone == pc = "chat_done"

\* /chat has returned and the chat model had answered with text
ChatAnswered == pc = "chat_done" /\ response.kind = "text"

SomethingWentWrong == PyStr(<<"Something went wrong on the server.">>)

\* C1: every value /chat returns, whatever the chat model answered and
\* whatever failed, has the keys reply, order and check_sandwich, and its
\* order is not None.
C1_AllKeysOrderNotNull ==
    ChatDone =>
        /\ returned.t = "dict"
        /\ ReplyKeys \subseteq DOMAIN returned.v
        /\ returned.v["order"] # PyNone

\* the model answered an object whose order is null, and it was defaulted
C1_Witness ==
    /\ ChatAnswered
    /\ loaded.ok
    /\ loaded.val.t = "dict"
    /\ "order" \in DOMAIN loaded.val.v
    /\ loaded.val.v["order"] = PyNone
    /\ returned.v["order"] = PyList(<<>>)

\* C2: whatever text the chat model answered, the returned reply is a str,
\* order a list and check_sandwich a bool.
C2_CorrectTypes ==
    ChatAnswered =>
        /\ returned.v["reply"].t = "str"
        /\ returned.v["order"].t = "list"
        /\ returned.v["check_sandwich"].t = "bool"

\* C3 as claimed: when the cleaned output does not parse, the reply is the
\* content the model returned, untouched, leading and trailing whitespace
\* included.
C3_ReplyIsUntouchedContent ==
    (ChatAnswered /\ ~loaded.ok) =>
        returned = Fallback(response.text)

\* C3 as amended: when the cleaned output does not parse, the reply is the
\* content with its leading and trailing whitespace trimmed and nothing
\* else removed (fences and surrounding prose stay); order is [] and
\* check_sandwich is False.
C3_ReplyIsTrimmedContent ==
    (ChatAnswered /\ ~loaded.ok) =>
        /\ DOMAIN returned.v = ReplyKeys
        /\ returned.v["reply"] = PyStr(Strip(response.text))
        /\ returned.v["order"] = PyList(<<>>)
        /\ returned.v["check_sandwich"] = PyBool(FALSE)

\* an unparsable answer in a fence, with whitespace around it: the reply
\* keeps the fence the cleaning removed and loses the whitespace
C3_Witness ==
    /\ ChatAnswered
    /\ ~loaded.ok
    /\ Strip(response.text) # response.text
    /\ StartsWithFence(Strip(response.text))
    /\ extract_json_block(raw) # Strip(response.text)
    /\ returned.v["reply"] = PyStr(Strip(response.text))

\* C4: no text the chat model answers makes /chat return the error
\* payload; text that is not a JSON object gives the fallback whose reply
\* is the raw text.
C4_TextNeverErrorPayload ==
    ChatAnswered =>
        /\ returned.v["reply"] # SomethingWentWrong
        /\ (~(loaded.ok /\ loaded.val.t = "dict")
                => returned = Fallback(raw))

\* ------------------------------------------------------------------------
\* C5: a JSON object J inside a text
\* ------------------------------------------------------------------------
IsObjectText(J) ==
    /\ J # <<>>
    /\ J[1] = "{"
    /\ J[Len(J)] = "}"
    /\ json_loads(J).ok
    /\ json_loads(J).val.t = "dict"

AllSpace(s) == \A i \in 1..Len(s) : IsSpace(s[i])

Has(s, c) == \E i \in 1..Len(s) : s[i] = c

\* J alone
Alone(pre, post) == AllSpace(pre) /\ AllSpace(post)

\* an opening fence line (fence, anything but a newline, newline) before J,
\* a closing fence or nothing after it
Fenced(pre, post) ==
    LET p == LStrip(pre)
        q == Strip(post)
    IN  /\ StartsWithFence(p)
        /\ Find(p, "nl") # 0
        /\ AllSpace(SubSeq(p, Find(p, "nl"), Len(p)))
        /\ q \in {<<>>, <<"fence">>}

\* prose without "{" before J and without "}" after it
InProse(pre, post) == ~Has(pre, "{") /\ ~Has(post, "}")

\* the prose before J does not open with a fence
NoFenceFirst(pre) == ~StartsWithFence(LStrip(pre))

\* the normalization of the parsed J: the three defaults of lines 150-156
Normalized(d) ==
    [k \in (DOMAIN d) \cup ReplyKeys |->
        IF k \in DOMAIN d /\ ~(k = "order" /\ d[k] = PyNone)
        THEN d[k]
        ELSE CASE k = "reply" -> PyStr(<<>>)
               [] k = "order" -> PyList(<<>>)
               [] OTHER -> PyBool(FALSE)]

\* J at positions i..j of the text was parsed, and the returned value is
\* its normalization
ReturnedObjectAt(text, i, j) ==
    /\ loaded.ok
    /\ loaded.val = json_loads(SubSeq(text, i, j)).val
    /\ returned = PyDict(Normalized(json_loads(SubSeq(text, i, j)).val.v))

\* for every way of reading the text as pre, J, post with J a JSON object
\* text and pre, post as covered(pre, post) says
ObjectsReturned(text, covered(_, _)) ==
    \A i \in 1..Len(text), j \in 1..Len(text) :
        (/\ i < j
         /\ IsObjectText(SubSeq(text, i, j))
         /\ covered(SubSeq(text, 1, i - 1), SubSeq(text, j + 1, Len(text))))
        => ReturnedObjectAt(text, i, j)

ClaimedCover(pre, post) ==
    Alone(pre, post) \/ Fenced(pre, post) \/ InProse(pre, post)

\* the same, the prose before J not opening with a fence
UnfencedCover(pre, post) ==
    \/ Alone(pre, post)
    \/ Fenced(pre, post)
    \/ InProse(pre, post) /\ NoFenceFirst(pre)

\* C5: J alone, J in a fence whose opening line ends in a newline, or J
\* in prose with no "{" before and no "}" after it, is what is parsed, and
\* its normalization is what is returned.
C5_ObjectExtracted ==
    ChatAnswered => ObjectsReturned(response.text, ClaimedCover)

\* The part of C5 the code keeps: the same when the prose before J does not
\* open with a fence (lines 39-41 drop the line of an opening fence, and
\* with it whatever of J stands on that line).
ObjectExtractedUnlessFenceLine ==
    ChatAnswered => ObjectsReturned(response.text, UnfencedCover)

\* J with a reply, in a fence with a language tag and a closing fence
FencedObjectReturned ==
    /\ ChatAnswered
    /\ \E i \in 1..Len(response.text), j \in 1..Len(response.text) :
        /\ i < j
        /\ IsObjectText(SubSeq(response.text, i, j))
        /\ SubSeq(response.text, 1, i - 1) = <<"fence", "w", "nl">>
        /\ SubSeq(response.text, j + 1, Len(response.text)) = <<"nl", "fence">>
        /\ "reply" \in DOMAIN json_loads(SubSeq(response.text, i, j)).val.v
        /\ ReturnedObjectAt(response.text, i, j)

\* C6: of a parsed object, normalization changes only a missing reply (to
\* ""), a missing or null order (to []) and a missing check_sandwich (to
\* False); every other key and value is returned as parsed.
C6_OnlyDefaultsChange ==
    (ChatAnswered /\ loaded.ok /\ loaded.val.t = "dict") =>
        LET d == loaded.val.v
        IN  /\ returned.t = "dict"
            /\ DOMAIN returned.v = (DOMAIN d) \cup ReplyKeys
            /\ \A k \in DOMAIN d :
                 ~(k = "order" /\ d[k] = PyNone) => returned.v[k] = d[k]
            /\ "reply" \notin DOMAIN d => returned.v["reply"] = PyStr(<<>>)
            /\ ("order" \notin DOMAIN d \/ d["order"] = PyNone)
                 => returned.v["order"] = PyList(<<>>)
            /\ "check_sandwich" \notin DOMAIN d
                 => returned.v["check_sandwich"] = PyBool(FALSE)
            /\ (ReplyKeys \subseteq DOMAIN d /\ d["order"] # PyNone)
                 => returned.v = d

\* an object with an extra key and an order that is "" (falsy, not null)
C6_Witness ==
    /\ ChatAnswered
    /\ loaded.ok
    /\ loaded.val.t = "dict"
    /\ "x" \in DOMAIN loaded.val.v
    /\ "order" \in DOMAIN loaded.val.v
    /\ loaded.val.v["order"] = PyStr(<<>>)
    /\ returned.v["order"] = PyStr(<<>>)
    /\ returned.v["x"] = PyStr(<<"x">>)

\* the request could not be read, or its log line raised
RequestFailed ==
    \/ request.kind \in {"badjson", "nondict", "strmessages"}
    \/ /\ request.kind = "messages"
       /\ \E i \in 1..Len(request.messages) :
            /\ i + 3 > Len(request.messages)
            /\ ~({"role", "content"} \subseteq DOMAIN request.messages[i])

\* C7: when the request cannot be read, or ollama.chat raises, or its
\* result has no message content, /chat returns exactly the fixed payload.
C7_FailureGivesFixedPayload ==
    (ChatDone /\ (RequestFailed \/ response.kind \in {"raise", "nocontent"})) =>
        /\ returned.t = "dict"
        /\ DOMAIN returned.v = ReplyKeys
        /\ returned.v["reply"] = SomethingWentWrong
        /\ returned.v["order"] = PyList(<<>>)
        /\ returned.v["check_sandwich"] = PyBool(FALSE)

\* ollama.chat raised
C7_Witness ==
    /\ ChatDone
    /\ response.kind = "raise"
    /\ ollama_calls = 1
    /\ returned.v["reply"] = SomethingWentWrong

\* the current request is a /stt request
SttRequested == request.kind = "audio"

\* C8: a /stt request with an empty body never calls sf.read nor
\* transcribe, and returns {"text": ""}.
C8_EmptyBodySkipsModels ==
    (SttRequested /\ request.data = <<>>) =>
        /\ sf_calls = 0
        /\ whisper_calls = 0
        /\ pc = "stt_done"
        /\ returned = PyDict([k \in {"text"} |-> PyStr(<<>>)])

C8_Witness ==
    /\ SttRequested
    /\ request.data = <<>>
    /\ pc = "stt_done"
    /\ returned.v["text"] = PyStr(<<>>)

\* sf.read, the mono reduction or the transcription failed
SttFailed ==
    \/ decoded.kind = "raise"
    \/ decoded.channels > 1 /\ decoded.mean_raises
    \/ transcription.kind = "raise"
    \/ transcription.raises

\* C9: a /stt request with a body whose decoding, mono reduction or
\* transcription fails returns {"text": ""}, also when segments were
\* already produced.
C9_FailureGivesEmptyText ==
    (pc = "stt_done" /\ SttRequested /\ request.data # <<>> /\ SttFailed) =>
        returned = PyDict([k \in {"text"} |-> PyStr(<<>>)])

\* the segment generator raised after a segment with text
C9_Witness ==
    /\ pc = "stt_done"
    /\ request.data # <<>>
    /\ transcription.kind = "segments"
    /\ transcription.raises
    /\ JoinSegments(transcription.segs) # <<>>
    /\ returned.v["text"] = PyStr(<<>>)

WellFormed(messages) ==
    \A i \in 1..Len(messages) : {"role", "content"} \subseteq DOMAIN messages[i]

\* C10: for a conversation of well-formed messages ollama.chat is called
\* exactly once, with stream False and the messages as received; a body
\* without messages forwards the empty list; no request calls it twice,
\* also after it failed.
C10_ForwardedOnceVerbatim ==
    /\ ollama_calls <= 1
    /\ (/\ pc \in {"chat_call", "chat_done"}
        /\ request.kind = "messages"
        /\ WellFormed(request.messages))
       => /\ ollama_calls = 1
          /\ ollama_call.messages = request.messages
          /\ ollama_call.stream = FALSE
    /\ (pc \in {"chat_call", "chat_done"} /\ request.kind = "nomessages")
       => /\ ollama_calls = 1
          /\ ollama_call.messages = <<>>
          /\ ollama_call.stream = FALSE

\* a conversation of four messages, the call failed
C10_Witness ==
    /\ ChatDone
    /\ request.kind = "messages"
    /\ WellFormed(request.messages)
    /\ Len(request.messages) = 4
    /\ request.messages[1] # request.messages[2]
    /\ response.kind = "raise"
    /\ ollama_calls = 1
    /\ ollama_call.messages = request.messages
====
